---- MODULE Spec2Model ----
(***************************************************************************)
(* The nodepool controller: PodReconciler.Reconcile and its helpers        *)
(* (listNodePools, findMatchingNodePool, createNodePool) running as        *)
(* concurrent reconciliation passes against one NodePool store.            *)
(*                                                                         *)
(* A pass is split at its calls to the API server: Get (the pod), List     *)
(* (the NodePools) and Create (a NodePool).  Everything the code does      *)
(* between two calls is local to the pass and belongs to the action of the *)
(* call before it.                                                         *)
(***************************************************************************)
EXTENDS Naturals, Sequences, FiniteSets, TLC

\* ---------------------------------------------------------------- bounds

\* Reconciliation passes that may be in flight at once (workers of one
\* manager, or replicas running without leader election).
NumWorkers == 2
\* Triggers the dispatcher delivers in one behaviour.
MaxTriggers == 3
\* NodePools in the store before the controller starts.
MaxInitPools == 1
\* Taints of one such NodePool.
MaxTaints == 2

Workers == 1..NumWorkers

\* ------------------------------------------------------- program constants

\* Reconcile: ctrl.Result{RequeueAfter: 5 * time.Second}
RequeueMatched == 5
\* Reconcile: ctrl.Result{RequeueAfter: 10 * time.Second}
RequeueCreated == 10
\* ctrl.Result{}
NoRequeue == 0

\* The nodeSelector key Reconcile looks up, and the key of the taint
\* createNodePool writes.
DemandKey == "provision-for-team"

\* ------------------------------------------------------------------ inputs

\* Values a pod may bind the demand key to.
Identifiers == {"", "a", "b"}

\* pod.Spec.NodeSelector: a map from keys to strings.
EmptySelector == [k \in {} |-> ""]
NodeSelectors ==
    {EmptySelector, [k \in {"zone"} |-> "a"]}
        \cup {[k \in {DemandKey} |-> v] : v \in Identifiers}

PodPhases == {"Pending", "Running"}

\* ------------------------------------------------- unstructured NodePools

\* One element of spec.template.spec.taints.  isMap = FALSE is an element
\* that is no map[string]interface{}; valueKind says whether the map holds
\* "value" and whether it is a string.
Taint(k, v, e) ==
    [isMap |-> TRUE, key |-> k, valueKind |-> "string", value |-> v, effect |-> e]
ScalarTaint ==
    [isMap |-> FALSE, key |-> "", valueKind |-> "absent", value |-> "", effect |-> ""]
NoValueTaint ==
    [isMap |-> TRUE, key |-> DemandKey, valueKind |-> "absent", value |-> "",
     effect |-> "NoSchedule"]
NumberValueTaint ==
    [isMap |-> TRUE, key |-> DemandKey, valueKind |-> "number", value |-> "",
     effect |-> "NoSchedule"]

\* A NodePool object: its name and the field spec.template.spec.taints,
\* which is a slice, absent, or something that is no slice.
NodePool(n, kind, ts) == [name |-> n, taintsKind |-> kind, taints |-> ts]

\* Taints found on NodePools that something other than the controller made.
InitTaints ==
    {ScalarTaint, NoValueTaint, NumberValueTaint,
     Taint("dedicated", "a", "NoExecute"),
     Taint(DemandKey, "b", "NoSchedule")}

RECURSIVE SeqsUpTo(_, _)
\* The sequences over S of length at most n.
SeqsUpTo(S, n) ==
    IF n = 0 THEN {<<>>}
    ELSE LET shorter == SeqsUpTo(S, n - 1)
         IN  shorter \cup {Append(q, x) : q \in shorter, x \in S}

\* Names of NodePools present before the controller starts: one the
\* controller never derives, and one it derives for identifier "a".
InitNames == {"default", "nodepool-a"}

InitPools ==
    {NodePool(n, "slice", ts) : n \in InitNames, ts \in SeqsUpTo(InitTaints, MaxTaints)}
        \cup {NodePool(n, k, <<>>) : n \in InitNames, k \in {"absent", "notslice"}}

Names(pools) == {pools[i].name : i \in DOMAIN pools}

\* The API server keeps metadata.name unique among NodePools.
UniqueNames(pools) ==
    \A i, j \in DOMAIN pools : pools[i].name = pools[j].name => i = j

InitCatalogs == {c \in SeqsUpTo(InitPools, MaxInitPools) : UniqueNames(c)}

\* The catalogs the concurrent passes start from: empty; a NodePool that
\* carries identifier "a" under another key; a NodePool with a malformed
\* taint before one for "b"; a NodePool without taints; a NodePool that
\* holds the name derived for "a" but carries identifier "b"; and a NodePool
\* for "b" followed by one whose taints are no slice.
SeedCatalogs ==
    {<<>>,
     <<NodePool("default", "slice", <<Taint("dedicated", "a", "NoExecute")>>)>>,
     <<NodePool("default", "slice",
                <<ScalarTaint, Taint(DemandKey, "b", "NoSchedule")>>)>>,
     <<NodePool("default", "absent", <<>>)>>,
     <<NodePool("nodepool-a", "slice", <<Taint(DemandKey, "b", "NoSchedule")>>)>>,
     <<NodePool("default", "slice", <<Taint(DemandKey, "b", "NoSchedule")>>),
       NodePool("spare", "notslice", <<>>)>>}

\* -------------------------------------------------------- pure functions

\* unstructured.NestedSlice(nodePool.Object, "spec", "template", "spec",
\* "taints"): the slice and found = TRUE; found = FALSE when the field is
\* absent; an error when the field is no slice.
NestedSlice(nodePool) ==
    [val   |-> IF nodePool.taintsKind = "slice" THEN nodePool.taints ELSE <<>>,
     found |-> nodePool.taintsKind = "slice",
     err   |-> nodePool.taintsKind = "notslice"]

\* unstructured.NestedString(taintMap, "value"): the string and found = TRUE;
\* found = FALSE when the key is absent; an error when the value is no string.
NestedString(taintMap) ==
    [val   |-> IF taintMap.valueKind = "string" THEN taintMap.value ELSE "",
     found |-> taintMap.valueKind = "string",
     err   |-> taintMap.valueKind = "number"]

\* TaintMatches, had it compared the taint's key as well.
TaintMatchesKeyed(taint, provisionForTeamValue) ==
    /\ taint.isMap
    /\ NestedString(taint).found
    /\ taint.key = DemandKey
    /\ NestedString(taint).val = provisionForTeamValue

\* TaintMatches, had it left out the comparison of the value.
TaintMatchesAny(taint, provisionForTeamValue) ==
    /\ taint.isMap
    /\ NestedString(taint).found

\* The body of the loop over taints: the element is a map, its "value" is a
\* string, and that string equals the identifier.  Every other element is
\* skipped (continue).
TaintMatches(taint, provisionForTeamValue) ==
    IF ~taint.isMap THEN FALSE
    ELSE LET v == NestedString(taint)
         IN  IF v.err \/ ~v.found THEN FALSE
             ELSE v.val = provisionForTeamValue

\* ScanTaints, had it stopped at the first element instead of going on.
ScanTaintsFirstOnly(taints, i, provisionForTeamValue) ==
    /\ i <= Len(taints)
    /\ TaintMatches(taints[i], provisionForTeamValue)

RECURSIVE ScanTaints(_, _, _)
\* for _, taint := range taints, from element i on: TRUE at the first match.
ScanTaints(taints, i, provisionForTeamValue) ==
    IF i > Len(taints) THEN FALSE
    ELSE IF TaintMatches(taints[i], provisionForTeamValue) THEN TRUE
    ELSE ScanTaints(taints, i + 1, provisionForTeamValue)

\* ScanNodePools, had it stopped at the first NodePool instead of going on.
ScanNodePoolsFirstOnly(nodePools, i, provisionForTeamValue) ==
    /\ i <= Len(nodePools)
    /\ NestedSlice(nodePools[i]).found
    /\ ScanTaints(NestedSlice(nodePools[i]).val, 1, provisionForTeamValue)

RECURSIVE ScanNodePoolsAborting(_, _, _)
\* ScanNodePools, had a NodePool whose taints cannot be read ended the scan.
ScanNodePoolsAborting(nodePools, i, provisionForTeamValue) ==
    IF i > Len(nodePools) THEN FALSE
    ELSE LET t == NestedSlice(nodePools[i])
         IN  IF t.err \/ ~t.found THEN FALSE
             ELSE IF ScanTaints(t.val, 1, provisionForTeamValue) THEN TRUE
             ELSE ScanNodePoolsAborting(nodePools, i + 1, provisionForTeamValue)

RECURSIVE ScanNodePools(_, _, _)
\* for _, nodePool := range nodePools, from element i on: a NodePool whose
\* taints cannot be read is skipped; TRUE at the first NodePool with a match.
ScanNodePools(nodePools, i, provisionForTeamValue) ==
    IF i > Len(nodePools) THEN FALSE
    ELSE LET t == NestedSlice(nodePools[i])
         IN  IF t.err \/ ~t.found
             THEN ScanNodePools(nodePools, i + 1, provisionForTeamValue)
             ELSE IF ScanTaints(t.val, 1, provisionForTeamValue) THEN TRUE
             ELSE ScanNodePools(nodePools, i + 1, provisionForTeamValue)

\* findMatchingNodePool, after a successful list.
findMatchingNodePool(nodePools, provisionForTeamValue) ==
    ScanNodePools(nodePools, 1, provisionForTeamValue)

\* nodePoolName, had it dropped the identifier.
nodePoolNameFixed(provisionForTeamValue) == "nodepool-"

\* fmt.Sprintf("nodepool-%s", provisionForTeamValue)
nodePoolName(provisionForTeamValue) == "nodepool-" \o provisionForTeamValue

\* newTaints, had it added a second taint for the identifier.
newTaintsTwo(provisionForTeamValue) ==
    <<Taint(DemandKey, provisionForTeamValue, "NoSchedule"),
      Taint(DemandKey, provisionForTeamValue, "NoExecute")>>

\* newTaints, had the taint not carried the identifier as its value.
newTaintsUnvalued(provisionForTeamValue) ==
    <<Taint(DemandKey, "true", "NoSchedule")>>

\* "taints" of the object createNodePool builds.
newTaints(provisionForTeamValue) ==
    <<Taint(DemandKey, provisionForTeamValue, "NoSchedule")>>

\* The object createNodePool builds.
newNodePool(provisionForTeamValue) ==
    NodePool(nodePoolName(provisionForTeamValue), "slice",
             newTaints(provisionForTeamValue))

\* checkPodNodeSelector, had it ignored the comma-ok flag.
checkPodNodeSelectorAlways(nodeSelector) ==
    [value  |-> IF DemandKey \in DOMAIN nodeSelector
                THEN nodeSelector[DemandKey] ELSE "",
     exists |-> TRUE]

\* nodeSelector["provision-for-team"] with its comma-ok flag
\* (checkPodNodeSelector).
checkPodNodeSelector(nodeSelector) ==
    [value  |-> IF DemandKey \in DOMAIN nodeSelector
                THEN nodeSelector[DemandKey] ELSE "",
     exists |-> DemandKey \in DOMAIN nodeSelector]

\* ------------------------------------------------------------------- state

VARIABLES
    store,                  \* the NodePools the API server holds, in list order
    DynamicClient,          \* PodReconciler.DynamicClient: "set" or "nil"
    triggers,               \* triggers delivered so far
    created,                \* identifiers whose NodePool a Create call stored
    pc,                     \* per pass: "idle", "list", "create" or "done"
    pod,                    \* per pass: what r.Get returned
    provisionForTeamValue,  \* per pass: the identifier read from the pod
    nodePools,              \* per pass: the items the List call returned
    matchingNodePoolFound,  \* per pass: the matcher's result
    submitted,              \* per pass: the objects handed to Create, in order
    calls,                  \* per pass: its calls to the API server, in order
    listOutcome,            \* per pass: "none", "ok", "error" or "nil-client"
    createOutcome,          \* per pass: "none", "created", "AlreadyExists", "rejected"
    result                  \* per pass: the (ctrl.Result, error) it returned

vars ==
    <<store, DynamicClient, triggers, created, pc, pod, provisionForTeamValue,
      nodePools, matchingNodePoolFound, submitted, calls, listOutcome,
      createOutcome, result>>

\* What r.Get yields when it does not find the pod or fails.
NoPod(outcome) == [get |-> outcome, phase |-> "", nodeSelector |-> EmptySelector]
\* A pod r.Get found.
Pod(phase, nodeSelector) ==
    [get |-> "found", phase |-> phase, nodeSelector |-> nodeSelector]

\* (ctrl.Result{RequeueAfter: d}, err); err = "nil" is no error.
Result(d, err) == [RequeueAfter |-> d, err |-> err]

\* The state after construction, over a set of NodePool catalogs.
InitOver(catalogs) ==
    /\ store \in catalogs
    /\ DynamicClient \in {"set", "nil"}
    /\ triggers = 0
    /\ created = {}
    /\ pc = [p \in Workers |-> "idle"]
    /\ pod = [p \in Workers |-> NoPod("none")]
    /\ provisionForTeamValue = [p \in Workers |-> ""]
    /\ nodePools = [p \in Workers |-> <<>>]
    /\ matchingNodePoolFound = [p \in Workers |-> FALSE]
    /\ submitted = [p \in Workers |-> <<>>]
    /\ calls = [p \in Workers |-> <<>>]
    /\ listOutcome = [p \in Workers |-> "none"]
    /\ createOutcome = [p \in Workers |-> "none"]
    /\ result = [p \in Workers |-> Result(NoRequeue, "nil")]

Init == InitOver(SeedCatalogs)

\* return res, err
Finish(p, res) ==
    /\ pc' = [pc EXCEPT ![p] = "done"]
    /\ result' = [result EXCEPT ![p] = res]

\* ----------------------------------------------------------------- actions

\* if pod.Status.Phase == corev1.PodPending, had the check been left out.
IsPendingAlways(got) == TRUE

\* if pod.Status.Phase == corev1.PodPending
IsPending(got) == got.phase = "Pending"

\* if err != nil after r.Get, had client.IgnoreNotFound been left out.
GetFailedSurfaceAll(outcome) == Result(NoRequeue, "get failed")

\* if err != nil after r.Get, had every error been ignored like NotFound.
GetFailedIgnoreAll(outcome) == Result(NoRequeue, "nil")

\* if err != nil after r.Get: NotFound is ignored, any other error returned.
GetFailed(outcome) ==
    IF outcome = "NotFound"
    THEN Result(NoRequeue, "nil")
    ELSE Result(NoRequeue, "get failed")

\* Reconcile for what r.Get returned, from its start to the List call: the
\* error check, the phase check and the nodeSelector lookup.
GetPod(p, got) ==
    LET sel == checkPodNodeSelector(got.nodeSelector)
    IN  /\ pc[p] = "idle"
        /\ calls' = [calls EXCEPT ![p] = <<"get">>]
        /\ pod' = [pod EXCEPT ![p] = got]
        /\ IF got.get # "found" THEN
               /\ Finish(p, GetFailed(got.get))
               /\ UNCHANGED provisionForTeamValue
           ELSE IF ~IsPending(got) THEN
               /\ Finish(p, Result(NoRequeue, "nil"))
               /\ UNCHANGED provisionForTeamValue
           ELSE IF ~sel.exists THEN
               /\ Finish(p, Result(NoRequeue, "nil"))
               /\ UNCHANGED provisionForTeamValue
           ELSE
               /\ pc' = [pc EXCEPT ![p] = "list"]
               /\ provisionForTeamValue' =
                      [provisionForTeamValue EXCEPT ![p] = sel.value]
               /\ UNCHANGED result
        /\ UNCHANGED <<store, DynamicClient, created, nodePools,
                       matchingNodePoolFound, submitted, listOutcome,
                       createOutcome>>

\* What r.Get may return for a trigger.
GetResults ==
    {NoPod("NotFound"), NoPod("error")}
        \cup {Pod(ph, ns) : ph \in PodPhases, ns \in NodeSelectors}

\* One trigger delivered to worker p.
Get(p) ==
    /\ triggers < MaxTriggers
    /\ triggers' = triggers + 1
    /\ \E got \in GetResults : GetPod(p, got)

\* if err != nil after listNodePools, had it gone on as if nothing matched.
ListFailedGoOn(p, err) ==
    /\ pc' = [pc EXCEPT ![p] = "create"]
    /\ UNCHANGED result

\* if err != nil after listNodePools, had the pass listed again.
ListFailedRetry(p, err) == UNCHANGED <<pc, result>>

\* if err != nil after listNodePools: return ctrl.Result{}, err
ListFailed(p, err) == Finish(p, Result(NoRequeue, err))

\* listNodePools and the scan of its items, up to the decision to create.
List(p) ==
    /\ pc[p] = "list"
    /\ IF DynamicClient = "nil" THEN
           /\ listOutcome' = [listOutcome EXCEPT ![p] = "nil-client"]
           /\ ListFailed(p, "dynamic client is nil")
           /\ UNCHANGED <<calls, nodePools, matchingNodePoolFound>>
       ELSE
           /\ calls' = [calls EXCEPT ![p] = Append(@, "list")]
           /\ \/ /\ listOutcome' = [listOutcome EXCEPT ![p] = "error"]
                 /\ ListFailed(p, "failed to list NodePools")
                 /\ UNCHANGED <<nodePools, matchingNodePoolFound>>
              \/ LET found == findMatchingNodePool(store, provisionForTeamValue[p])
                 IN  /\ listOutcome' = [listOutcome EXCEPT ![p] = "ok"]
                     /\ nodePools' = [nodePools EXCEPT ![p] = store]
                     /\ matchingNodePoolFound' =
                            [matchingNodePoolFound EXCEPT ![p] = found]
                     /\ IF found
                        THEN Finish(p, Result(RequeueMatched, "nil"))
                        ELSE /\ pc' = [pc EXCEPT ![p] = "create"]
                             /\ UNCHANGED result
    /\ UNCHANGED <<store, DynamicClient, triggers, created, pod,
                   provisionForTeamValue, submitted, createOutcome>>

\* Create, had the controller used a call that replaces an object of the
\* same name.
ApiApply(st, nodePool) ==
    IF nodePool.name \in Names(st)
    THEN [store   |-> [i \in DOMAIN st |->
                          IF st[i].name = nodePool.name THEN nodePool ELSE st[i]],
          outcome |-> "created"]
    ELSE [store |-> Append(st, nodePool), outcome |-> "created"]

\* r.DynamicClient.Resource(gvr).Namespace("").Create, when the API server
\* accepts the request: it stores the object, or refuses a name it already
\* holds with AlreadyExists.
ApiCreate(st, nodePool) ==
    IF nodePool.name \in Names(st)
    THEN [store |-> st, outcome |-> "AlreadyExists"]
    ELSE [store |-> Append(st, nodePool), outcome |-> "created"]

\* if err != nil after Create, had the pass tried the creation again.
CreateFailedRetry(p, err) == UNCHANGED <<pc, result>>

\* if err != nil after Create, had the error been dropped.
CreateFailedSwallow(p, err) == Finish(p, Result(RequeueCreated, "nil"))

\* if err != nil after Create: createNodePool wraps the error and Reconcile
\* returns ctrl.Result{}, err.
CreateFailed(p, err) == Finish(p, Result(NoRequeue, err))

\* createNodePool and the return that follows it.  The API server may also
\* reject any request (authorization, validation, unavailable).
Create(p) ==
    /\ pc[p] = "create"
    /\ LET nodePool == newNodePool(provisionForTeamValue[p])
           r == ApiCreate(store, nodePool)
       IN  /\ calls' = [calls EXCEPT ![p] = Append(@, "create")]
           /\ submitted' = [submitted EXCEPT ![p] = Append(@, nodePool)]
           /\ \/ /\ store' = r.store
                 /\ createOutcome' = [createOutcome EXCEPT ![p] = r.outcome]
                 /\ IF r.outcome = "created"
                    THEN /\ created' = created \cup {provisionForTeamValue[p]}
                         /\ Finish(p, Result(RequeueCreated, "nil"))
                    ELSE /\ UNCHANGED created
                         /\ CreateFailed(p, "failed to create NodePool: AlreadyExists")
              \/ /\ createOutcome' = [createOutcome EXCEPT ![p] = "rejected"]
                 /\ CreateFailed(p, "failed to create NodePool: rejected")
                 /\ UNCHANGED <<store, created>>
    /\ UNCHANGED <<DynamicClient, triggers, pod, provisionForTeamValue,
                   nodePools, matchingNodePoolFound, listOutcome>>

\* The dispatcher takes the pass's result; the worker is free again.
Return(p) ==
    /\ pc[p] = "done"
    /\ pc' = [pc EXCEPT ![p] = "idle"]
    /\ pod' = [pod EXCEPT ![p] = NoPod("none")]
    /\ provisionForTeamValue' = [provisionForTeamValue EXCEPT ![p] = ""]
    /\ nodePools' = [nodePools EXCEPT ![p] = <<>>]
    /\ matchingNodePoolFound' = [matchingNodePoolFound EXCEPT ![p] = FALSE]
    /\ submitted' = [submitted EXCEPT ![p] = <<>>]
    /\ calls' = [calls EXCEPT ![p] = <<>>]
    /\ listOutcome' = [listOutcome EXCEPT ![p] = "none"]
    /\ createOutcome' = [createOutcome EXCEPT ![p] = "none"]
    /\ result' = [result EXCEPT ![p] = Result(NoRequeue, "nil")]
    /\ UNCHANGED <<store, DynamicClient, triggers, created>>

Next == \E p \in Workers : Get(p) \/ List(p) \/ Create(p) \/ Return(p)

Spec == Init /\ [][Next]_vars

\* Passes one after the other: the controller is built without
\* MaxConcurrentReconciles, so one worker runs every pass.
SeqNext == Get(1) \/ List(1) \/ Create(1) \/ Return(1)

SeqSpec == Init /\ [][SeqNext]_vars

\* The read path of one pass over every catalog within the bounds: r.Get,
\* then the list and the scan.
ReadPathInit == InitOver(InitCatalogs)

ReadPathNext == Get(1) \/ List(1)

ReadPathSpec == ReadPathInit /\ [][ReadPathNext]_vars

\* The workload that stays Pending with identifier "a", and another pending
\* workload that asks for "b".
LivePod == Pod("Pending", [k \in {DemandKey} |-> "a"])
OtherPod == Pod("Pending", [k \in {DemandKey} |-> "b"])

\* A trigger for a workload r.Get finds, delivered to worker p; the
\* dispatcher delivers such triggers without end.
Trigger(p, got) == GetPod(p, got) /\ UNCHANGED triggers

LiveNext ==
    \E p \in Workers :
        \/ Trigger(p, LivePod)
        \/ Trigger(p, OtherPod)
        \/ List(p)
        \/ Create(p)
        \/ Return(p)

\* A pass that has started takes its next step; the dispatcher delivers the
\* pending workload's trigger again and again (RequeueAfter, and the
\* workqueue's backoff after an error).
LiveFairness ==
    /\ \A p \in Workers :
           WF_vars(List(p)) /\ WF_vars(Create(p)) /\ WF_vars(Return(p))
    /\ SF_vars(\E p \in Workers : Trigger(p, LivePod))

LiveSpec == Init /\ [][LiveNext]_vars /\ LiveFairness

\* ------------------------------------------------------------- properties

\* NodePool np carries a taint that is a map with the string value d.
HasValue(np, d) ==
    /\ np.taintsKind = "slice"
    /\ \E i \in DOMAIN np.taints :
         /\ np.taints[i].isMap
         /\ np.taints[i].valueKind = "string"
         /\ np.taints[i].value = d

\* Some NodePool of the catalog carries a taint with the string value d.
Matches(catalog, d) == \E i \in DOMAIN catalog : HasValue(catalog[i], d)

\* How many times pass p has made the call c.
CallCount(p, c) == Cardinality({i \in DOMAIN calls[p] : calls[p][i] = c})

\* The catalog with the key and the effect of every taint replaced.
Rekeyed(catalog) ==
    [i \in DOMAIN catalog |->
        [catalog[i] EXCEPT !.taints =
            [j \in DOMAIN catalog[i].taints |->
                [catalog[i].taints[j] EXCEPT !.key = "k", !.effect = "e"]]]]

\* C1: for every identifier whose NodePool a Create call of the controller
\* has stored, exactly one NodePool of the store carries a taint with that
\* value: the controller never stores a second NodePool for an identifier
\* that some NodePool already carries.
C1_OnePoolPerCreatedIdentifier ==
    \A d \in created :
        Cardinality({i \in DOMAIN store : HasValue(store[i], d)}) = 1

\* Two passes for one identifier raced: one stored the NodePool, the other
\* was refused with AlreadyExists, and the identifier has its one NodePool.
C1_Witness ==
    \E p, q \in Workers :
        /\ p # q
        /\ pc[p] = "done" /\ pc[q] = "done"
        /\ provisionForTeamValue[p] = provisionForTeamValue[q]
        /\ createOutcome[p] = "created"
        /\ createOutcome[q] = "AlreadyExists"
        /\ provisionForTeamValue[p] \in created

\* C2: when two passes for one identifier both find no match in the same
\* catalog and one of them stores the NodePool, the other does not store a
\* second one, and if its Create is refused with AlreadyExists it returns
\* no error.
C2_RaceSurfacesNoError ==
    \A p, q \in Workers :
        ( /\ p # q
          /\ pc[p] = "done" /\ pc[q] = "done"
          /\ provisionForTeamValue[p] = provisionForTeamValue[q]
          /\ listOutcome[p] = "ok" /\ listOutcome[q] = "ok"
          /\ ~matchingNodePoolFound[p] /\ ~matchingNodePoolFound[q]
          /\ nodePools[p] = nodePools[q]
          /\ createOutcome[p] = "created" )
        => /\ createOutcome[q] # "created"
           /\ createOutcome[q] = "AlreadyExists" => result[q].err = "nil"

\* C3: a pass whose Create call is refused with AlreadyExists returns no
\* error and asks for the re-check of a successful creation, 10 s.
C3_AlreadyExistsIsSuccess ==
    \A p \in Workers :
        (pc[p] = "done" /\ createOutcome[p] = "AlreadyExists")
        => result[p] = Result(RequeueCreated, "nil")

\* C4: a finished pass whose listed catalog holds no NodePool carrying the
\* pod's identifier has made exactly one Create call.
C4_UnmatchedCreatesOnce ==
    \A p \in Workers :
        ( /\ pc[p] = "done"
          /\ listOutcome[p] = "ok"
          /\ ~Matches(nodePools[p], provisionForTeamValue[p]) )
        => /\ CallCount(p, "create") = 1
           /\ Len(submitted[p]) = 1

\* A finished pass for a pending pod found no match in a catalog that holds
\* a NodePool, and made its one Create call.
C4_Witness ==
    \E p \in Workers :
        /\ pc[p] = "done"
        /\ pod[p].phase = "Pending"
        /\ listOutcome[p] = "ok"
        /\ nodePools[p] # <<>>
        /\ ~Matches(nodePools[p], provisionForTeamValue[p])
        /\ CallCount(p, "create") = 1

\* C5: a pass whose listed catalog holds a NodePool carrying the pod's
\* identifier makes no Create call: it is finished, and has handed nothing
\* to the store.
C5_MatchedNeverCreates ==
    \A p \in Workers :
        ( /\ listOutcome[p] = "ok"
          /\ Matches(nodePools[p], provisionForTeamValue[p]) )
        => /\ pc[p] = "done"
           /\ CallCount(p, "create") = 0
           /\ submitted[p] = <<>>
           /\ createOutcome[p] = "none"

\* A pass finished on a match found in the second NodePool of its catalog.
C5_Witness ==
    \E p \in Workers :
        /\ pc[p] = "done"
        /\ listOutcome[p] = "ok"
        /\ Len(nodePools[p]) >= 2
        /\ ~HasValue(nodePools[p][1], provisionForTeamValue[p])
        /\ Matches(nodePools[p], provisionForTeamValue[p])
        /\ CallCount(p, "create") = 0

\* C6: a pass for a pod whose nodeSelector lacks the demand key makes no
\* List call and no Create call, and returns no error and no re-check.
C6_NoDemandKeyNoCalls ==
    \A p \in Workers :
        ( /\ pod[p].get = "found"
          /\ DemandKey \notin DOMAIN pod[p].nodeSelector )
        => /\ pc[p] = "done"
           /\ calls[p] = <<"get">>
           /\ listOutcome[p] = "none"
           /\ createOutcome[p] = "none"
           /\ submitted[p] = <<>>
           /\ result[p] = Result(NoRequeue, "nil")

\* A pass finished for a pending pod whose nodeSelector holds only another
\* key.
C6_Witness ==
    \E p \in Workers :
        /\ pc[p] = "done"
        /\ pod[p].get = "found"
        /\ pod[p].phase = "Pending"
        /\ DOMAIN pod[p].nodeSelector = {"zone"}
        /\ result[p] = Result(NoRequeue, "nil")

\* A pass whose List failed is finished with an error and without a Create
\* call.
ListFailureSurfaces ==
    \A p \in Workers :
        listOutcome[p] \in {"error", "nil-client"}
        => /\ pc[p] = "done"
           /\ result[p].err # "nil"
           /\ CallCount(p, "create") = 0
           /\ submitted[p] = <<>>

\* The step in which a pass's List fails leaves the store as it was.
ListFailureKeepsStore ==
    \A p \in Workers :
        (listOutcome[p] = "none" /\ listOutcome'[p] \in {"error", "nil-client"})
        => store' = store

\* C7: when the List call of a pass fails, by an error of the store or
\* because the dynamic client is nil, the pass returns an error, makes no
\* Create call, and leaves the NodePools of the store unchanged.
C7_ListFailureAborts == []ListFailureSurfaces /\ [][ListFailureKeepsStore]_vars

\* A pass finished on a failed List while another pass for the same
\* identifier was about to create.
C7_Witness ==
    \E p, q \in Workers :
        /\ pc[p] = "done"
        /\ listOutcome[p] = "error"
        /\ result[p].err = "failed to list NodePools"
        /\ pc[q] = "create"
        /\ provisionForTeamValue[q] = provisionForTeamValue[p]

C9_OneTaintForIdentifier ==
    \A p \in Workers : \A i \in DOMAIN submitted[p] :
        /\ submitted[p][i].taintsKind = "slice"
        /\ Len(submitted[p][i].taints) = 1
        /\ submitted[p][i].taints[1] =
               [isMap |-> TRUE, key |-> "provision-for-team",
                valueKind |-> "string", value |-> provisionForTeamValue[p],
                effect |-> "NoSchedule"]

\* The store has taken a NodePool that a pass built for identifier "b".
C9_Witness ==
    \E p \in Workers :
        /\ createOutcome[p] = "created"
        /\ provisionForTeamValue[p] = "b"
        /\ submitted[p][1] = store[Len(store)]

\* C10: the matcher's result over the listed catalog is TRUE exactly when
\* some NodePool carries a taint with the identifier as its string value,
\* and it is the same with every taint's key and effect replaced.
C10_MatchIsByValueOnly ==
    \A p \in Workers :
        listOutcome[p] = "ok"
        => /\ matchingNodePoolFound[p]
                = Matches(nodePools[p], provisionForTeamValue[p])
           /\ matchingNodePoolFound[p]
                = findMatchingNodePool(Rekeyed(nodePools[p]),
                                       provisionForTeamValue[p])

\* A pass matched on a taint under another key, found behind a malformed
\* taint, in a catalog where no taint under the demand key has the value.
C10_Witness ==
    \E p \in Workers :
        /\ listOutcome[p] = "ok"
        /\ matchingNodePoolFound[p]
        /\ Len(nodePools[p]) = 1
        /\ Len(nodePools[p][1].taints) = 2
        /\ ~nodePools[p][1].taints[1].isMap
        /\ nodePools[p][1].taints[2].key # DemandKey
        /\ nodePools[p][1].taints[2].value = provisionForTeamValue[p]

\* NodePool np is malformed: its taints are absent or no slice, or one of
\* them is no map or holds no string value.
Malformed(np) ==
    \/ np.taintsKind # "slice"
    \/ \E i \in DOMAIN np.taints :
         ~np.taints[i].isMap \/ np.taints[i].valueKind # "string"

C12_DelayByOutcome ==
    \A p \in Workers :
        pc[p] = "done"
        => LET matched == listOutcome[p] = "ok" /\ matchingNodePoolFound[p]
               provisioned ==
                   /\ listOutcome[p] = "ok"
                   /\ ~matchingNodePoolFound[p]
                   /\ createOutcome[p] \in {"created", "AlreadyExists"}
           IN  result[p].RequeueAfter =
                   IF matched THEN RequeueMatched
                   ELSE IF provisioned THEN RequeueCreated
                   ELSE NoRequeue

\* C13: a pass for a pod that is not Pending makes no List call and no
\* Create call and returns no error and no re-check, whatever its
\* nodeSelector.
C13_NotPendingNoCalls ==
    \A p \in Workers :
        (pod[p].get = "found" /\ pod[p].phase # "Pending")
        => /\ pc[p] = "done"
           /\ calls[p] = <<"get">>
           /\ listOutcome[p] = "none"
           /\ createOutcome[p] = "none"
           /\ submitted[p] = <<>>
           /\ result[p] = Result(NoRequeue, "nil")

\* A pass finished for a running pod that declares the demand key.
C13_Witness ==
    \E p \in Workers :
        /\ pc[p] = "done"
        /\ pod[p].phase = "Running"
        /\ DemandKey \in DOMAIN pod[p].nodeSelector
        /\ pod[p].nodeSelector[DemandKey] = "a"

\* C14: a pass whose r.Get returns NotFound returns no error and no
\* re-check and makes no List call and no Create call.
C14_NotFoundIsSuccess ==
    \A p \in Workers :
        pod[p].get = "NotFound"
        => /\ pc[p] = "done"
           /\ calls[p] = <<"get">>
           /\ listOutcome[p] = "none"
           /\ createOutcome[p] = "none"
           /\ submitted[p] = <<>>
           /\ result[p] = Result(NoRequeue, "nil")

\* A pass finished on NotFound while another pass was listing.
C14_Witness ==
    \E p, q \in Workers :
        /\ pc[p] = "done"
        /\ pod[p].get = "NotFound"
        /\ pc[q] = "list"

\* A pass whose Create was rejected is finished with an error, no re-check
\* and one Create call.
CreateRejectedSurfaces ==
    \A p \in Workers :
        createOutcome[p] = "rejected"
        => /\ pc[p] = "done"
           /\ result[p].err # "nil"
           /\ result[p].RequeueAfter = NoRequeue
           /\ CallCount(p, "create") = 1

\* The step in which a pass's Create is rejected leaves the store as it was.
CreateRejectedKeepsStore ==
    \A p \in Workers :
        (createOutcome[p] = "none" /\ createOutcome'[p] = "rejected")
        => store' = store

\* C15: when the Create call of a pass fails with an error other than
\* AlreadyExists, the pass returns an error and no re-check, does not call
\* Create again, and leaves the NodePools of the store unchanged.
C15_CreateRejectedAborts ==
    []CreateRejectedSurfaces /\ [][CreateRejectedKeepsStore]_vars

\* A pass finished on a rejected Create for a name the store does not hold.
C15_Witness ==
    \E p \in Workers :
        /\ pc[p] = "done"
        /\ createOutcome[p] = "rejected"
        /\ submitted[p][1].name \notin Names(store)

\* The calls of every pass are Get, List and Create, and names are unique
\* in the store.
OnlyCreateWrites ==
    /\ \A p \in Workers : \A i \in DOMAIN calls[p] :
           calls[p][i] \in {"get", "list", "create"}
    /\ UniqueNames(store)

\* A step keeps every NodePool of the store at its place with its content,
\* and adds at most one, under a name the store did not hold.
ExistingPoolsKept ==
    /\ \A i \in DOMAIN store : i \in DOMAIN store' /\ store'[i] = store[i]
    /\ Len(store') <= Len(store) + 1
    /\ Len(store') = Len(store) + 1
         => store'[Len(store')].name \notin Names(store)

\* C16: no step of the controller changes or removes a NodePool the store
\* holds: its only write is the Create of a NodePool under a new name.
C16_ExistingPoolsUnchanged == []OnlyCreateWrites /\ [][ExistingPoolsKept]_vars

\* A pass for "a" was refused with AlreadyExists by a store whose NodePool
\* of the derived name carries another identifier, and that NodePool is as
\* it was.
C16_Witness ==
    \E p \in Workers :
        /\ createOutcome[p] = "AlreadyExists"
        /\ provisionForTeamValue[p] = "a"
        /\ store[1].name = "nodepool-a"
        /\ ~HasValue(store[1], "a")

\* C17: a pass makes at most one List call and at most one Create call, and
\* a Create call only after its List call returned the catalog.
C17_OneListOneCreate ==
    \A p \in Workers :
        /\ CallCount(p, "list") <= 1
        /\ CallCount(p, "create") <= 1
        /\ pc[p] = "create" => (listOutcome[p] = "ok" /\ calls[p] = <<"get", "list">>)
        /\ CallCount(p, "create") = 1
             => (listOutcome[p] = "ok" /\ calls[p] = <<"get", "list", "create">>)

\* A pass finished on a rejected Create after one List and one Create.
C17_Witness ==
    \E p \in Workers :
        /\ pc[p] = "done"
        /\ createOutcome[p] = "rejected"
        /\ calls[p] = <<"get", "list", "create">>

\* No pass shows a List or a Create that did not succeed.
NoFailure ==
    \A p \in Workers :
        /\ listOutcome[p] \notin {"error", "nil-client"}
        /\ createOutcome[p] \notin {"rejected", "AlreadyExists"}

\* A pass for "a" that read a catalog holding a NodePool for "a" is finished:
\* matched, no error, no Create call.
MatchedOnceHealed ==
    \A p \in Workers :
        ( /\ provisionForTeamValue[p] = "a"
          /\ listOutcome[p] = "ok"
          /\ Matches(nodePools[p], "a") )
        => /\ pc[p] = "done"
           /\ result[p] = Result(RequeueMatched, "nil")
           /\ CallCount(p, "create") = 0

\* C18: with triggers for the pending workload delivered again and again,
\* if from some point on no List and no Create fails, a NodePool carrying
\* "a" eventually exists; once it exists it stays; and every pass for "a"
\* that reads a catalog holding it ends matched with no Create call and no
\* error.
C18_SelfHealing ==
    /\ (<>[]NoFailure) => <>Matches(store, "a")
    /\ [][Matches(store, "a") => Matches(store', "a")]_vars
    /\ []MatchedOnceHealed

\* A pass for "a" ended matched on the NodePool an earlier pass created.
C18_Witness ==
    \E p \in Workers :
        /\ pc[p] = "done"
        /\ provisionForTeamValue[p] = "a"
        /\ matchingNodePoolFound[p]
        /\ "a" \in created
        /\ result[p] = Result(RequeueMatched, "nil")

\* C19: the identifier a pass hands to the scan and to createNodePool is
\* never the empty string.
C19_IdentifierNonEmpty ==
    \A p \in Workers :
        (pc[p] \in {"list", "create"} \/ listOutcome[p] # "none"
            \/ submitted[p] # <<>>)
        => provisionForTeamValue[p] # ""

\* C20: a pass in flight can always take its next step, whatever the other
\* passes do, and has made at most three calls.
C20_NoPassBlocks ==
    \A p \in Workers :
        /\ pc[p] = "list" => ENABLED List(p)
        /\ pc[p] = "create" => ENABLED Create(p)
        /\ pc[p] = "done" => ENABLED Return(p)
        /\ Len(calls[p]) <= 3

\* Two passes for one identifier are both about to create.
C20_Witness ==
    \E p, q \in Workers :
        /\ p # q
        /\ pc[p] = "create" /\ pc[q] = "create"
        /\ provisionForTeamValue[p] = provisionForTeamValue[q]

C22_GetErrorSurfaces ==
    \A p \in Workers :
        pod[p].get = "error"
        => /\ pc[p] = "done"
           /\ result[p] = Result(NoRequeue, "get failed")
           /\ calls[p] = <<"get">>
           /\ listOutcome[p] = "none"
           /\ createOutcome[p] = "none"
           /\ submitted[p] = <<>>

\* A pass finished on a failed r.Get while another pass was about to create.
C22_Witness ==
    \E p, q \in Workers :
        /\ pc[p] = "done"
        /\ pod[p].get = "error"
        /\ result[p].err = "get failed"
        /\ pc[q] = "create"

====
